---- MODULE Spec2Model ----
(***************************************************************************)
(* ArtLink backend: the request handlers of main.py over the entity        *)
(* schemas of schemas.py and a document store.                             *)
(*                                                                         *)
(* A request body is a record holding exactly the fields the client sent   *)
(* (a missing field is a missing key).  A stored record is [id, doc], doc  *)
(* being the validated, default-filled entity.  Python's None is the       *)
(* value None.  Numbers are integers (prices in whole currency units).     *)
(***************************************************************************)
EXTENDS Integers, Sequences, FiniteSets, TLC

VARIABLES
    db,      \* the module-level store handle imported by main.py: None or "handle"
    store,   \* the document store: collection name -> sequence of [id, doc]
    resp     \* the response to the last request served

vars == <<db, store, resp>>

None == "None"

\* ------------------------------------------------------------------ bounds
MaxTotal == 2     \* Spec: records stored over all collections
MaxItems == 2     \* SpecOrder: line items of one order built from ItemMenu
MaxOrders == 1    \* SpecOrder: orders stored
MaxOver == 10     \* SpecLimit: records stored beyond a collection's list limit
MaxUsers == 60    \* SpecLimit: users stored

\* --------------------------------------------------------- list limits
ArtworkLimit == 50
SupplyLimit == 100
OrderLimit == 50
PostLimit == 50
CommentLimit == 100

Collections ==
    {"user", "artwork", "purchaserequest", "supply", "order", "post", "comment"}

\* ------------------------------------------------------------ dict helpers
Has(r, f) == f \in DOMAIN r

\* dict.get(f, d)
Get(r, f, d) == IF f \in DOMAIN r THEN r[f] ELSE d

HasAll(r, fs) == \A f \in fs : Has(r, f)

Range(s) == {s[i] : i \in 1..Len(s)}

\* HttpUrl: an absolute URL
ValidUrls == {"http://img.io/a.png"}

IsUrl(u) == u \in ValidUrls

\* ------------------------------------------------------------- schemas
UserRoles == {"artist", "collector", "both"}

UserValid(in) ==
    /\ HasAll(in, {"name", "email"})
    /\ Has(in, "role") => in.role \in UserRoles
    /\ (Has(in, "avatar_url") /\ in.avatar_url # None) => IsUrl(in.avatar_url)

UserDoc(in) ==
    [name |-> in.name,
     email |-> in.email,
     role |-> Get(in, "role", "both"),
     avatar_url |-> Get(in, "avatar_url", None),
     bio |-> Get(in, "bio", ""),
     location |-> Get(in, "location", None),
     is_active |-> Get(in, "is_active", TRUE)]

ArtworkStatuses == {"available", "reserved", "sold", "commission_only"}

DefaultShipping == <<"artist-arranged", "insured-courier", "local-pickup">>

\* availability_status declared str: any value passes
ArtworkValidNoEnum(in) ==
    /\ HasAll(in, {"artist_id", "title"})
    /\ Has(in, "images") => \A u \in Range(in.images) : IsUrl(u)

ArtworkValid(in) ==
    /\ HasAll(in, {"artist_id", "title"})
    /\ Has(in, "images") => \A u \in Range(in.images) : IsUrl(u)
    /\ Has(in, "availability_status") => in.availability_status \in ArtworkStatuses

\* tags not carried over from the input
ArtworkDocNoTags(in) ==
    [artist_id |-> in.artist_id,
     title |-> in.title,
     story |-> Get(in, "story", None),
     media |-> Get(in, "media", None),
     dimensions |-> Get(in, "dimensions", None),
     year |-> Get(in, "year", None),
     images |-> Get(in, "images", <<>>),
     price_range |-> Get(in, "price_range", None),
     availability_status |-> Get(in, "availability_status", "available"),
     tags |-> <<>>,
     location |-> Get(in, "location", None),
     shipping_options |-> Get(in, "shipping_options", DefaultShipping),
     likes |-> Get(in, "likes", 0),
     views |-> Get(in, "views", 0)]

ArtworkDoc(in) ==
    [artist_id |-> in.artist_id,
     title |-> in.title,
     story |-> Get(in, "story", None),
     media |-> Get(in, "media", None),
     dimensions |-> Get(in, "dimensions", None),
     year |-> Get(in, "year", None),
     images |-> Get(in, "images", <<>>),
     price_range |-> Get(in, "price_range", None),
     availability_status |-> Get(in, "availability_status", "available"),
     tags |-> Get(in, "tags", <<>>),
     location |-> Get(in, "location", None),
     shipping_options |-> Get(in, "shipping_options", DefaultShipping),
     likes |-> Get(in, "likes", 0),
     views |-> Get(in, "views", 0)]

PurchaseStatuses == {"new", "in_review", "accepted", "declined"}

PurchaseRequestValid(in) ==
    /\ HasAll(in, {"artwork_id", "buyer_name", "buyer_email"})
    /\ Has(in, "status") => in.status \in PurchaseStatuses

PurchaseRequestDoc(in) ==
    [artwork_id |-> in.artwork_id,
     buyer_name |-> in.buyer_name,
     buyer_email |-> in.buyer_email,
     message |-> Get(in, "message", ""),
     status |-> Get(in, "status", "new")]

SupplyValid(in) ==
    /\ HasAll(in, {"title", "price", "category"})
    /\ in.price >= 0
    /\ Has(in, "images") => \A u \in Range(in.images) : IsUrl(u)
    /\ Has(in, "stock") => in.stock >= 0

SupplyDoc(in) ==
    [title |-> in.title,
     description |-> Get(in, "description", None),
     price |-> in.price,
     category |-> in.category,
     images |-> Get(in, "images", <<>>),
     stock |-> Get(in, "stock", 0),
     brand |-> Get(in, "brand", None)]

PostValid(in) ==
    /\ HasAll(in, {"author_id", "text"})
    /\ Has(in, "images") => \A u \in Range(in.images) : IsUrl(u)

PostDoc(in) ==
    [author_id |-> in.author_id,
     text |-> in.text,
     images |-> Get(in, "images", <<>>),
     tags |-> Get(in, "tags", <<>>),
     likes |-> Get(in, "likes", 0),
     comments_count |-> Get(in, "comments_count", 0)]

CommentValid(in) == HasAll(in, {"post_id", "author_id", "text"})

CommentDoc(in) ==
    [post_id |-> in.post_id,
     author_id |-> in.author_id,
     text |-> in.text,
     likes |-> Get(in, "likes", 0),
     created_at |-> Get(in, "created_at", None)]

\* --------------------------------------------------------------- orders
\* A raw JSON value of an order line: k is "int" (a number), "numstr" (a
\* string holding a number, n), "str" (any other string) or "null".
Num(n) == [k |-> "int", n |-> n]
NumStr(n) == [k |-> "numstr", n |-> n]
Text == [k |-> "str", n |-> 0]
Null == [k |-> "null", n |-> 0]

\* float(v) and int(v) raise on a non-numeric string and on None
Coercible(v) == v.k \in {"int", "numstr"}

ToNumber(v) == v.n

\* the loop with item.get("quantity", 0)
RECURSIVE ComputeTotalQuantityZero(_)
ComputeTotalQuantityZero(items) ==
    IF items = <<>> THEN [raised |-> FALSE, total |-> 0]
    ELSE LET rest == ComputeTotalQuantityZero(SubSeq(items, 1, Len(items) - 1))
             item == items[Len(items)]
             price == Get(item, "price", Num(0))
             qty == Get(item, "quantity", Num(0))
         IN  IF rest.raised \/ ~Coercible(price) \/ ~Coercible(qty)
             THEN [raised |-> TRUE, total |-> 0]
             ELSE [raised |-> FALSE,
                   total |-> rest.total + ToNumber(price) * ToNumber(qty)]

\* the loop of create_order (main.py): [raised, total]
RECURSIVE ComputeTotal(_)
ComputeTotal(items) ==
    IF items = <<>> THEN [raised |-> FALSE, total |-> 0]
    ELSE LET rest == ComputeTotal(SubSeq(items, 1, Len(items) - 1))
             item == items[Len(items)]
             price == Get(item, "price", Num(0))
             qty == Get(item, "quantity", Num(1))
         IN  IF rest.raised \/ ~Coercible(price) \/ ~Coercible(qty)
             THEN [raised |-> TRUE, total |-> 0]
             ELSE [raised |-> FALSE,
                   total |-> rest.total + ToNumber(price) * ToNumber(qty)]

OrderInputValid(in) ==
    HasAll(in, {"buyer_name", "buyer_email", "shipping_address", "items"})

OrderItemValid(item) ==
    /\ HasAll(item, {"supply_id", "title", "price"})
    /\ Coercible(item.price)
    /\ Has(item, "quantity") =>
          (Coercible(item.quantity) /\ ToNumber(item.quantity) >= 1)

OrderItemDoc(item) ==
    [supply_id |-> item.supply_id,
     title |-> item.title,
     price |-> ToNumber(item.price),
     quantity |-> ToNumber(Get(item, "quantity", Num(1)))]

OrderValid(items, total) ==
    /\ \A i \in 1..Len(items) : OrderItemValid(items[i])
    /\ total >= 0

OrderDoc(in, total) ==
    [buyer_name |-> in.buyer_name,
     buyer_email |-> in.buyer_email,
     shipping_address |-> in.shipping_address,
     items |-> [i \in 1..Len(in.items) |-> OrderItemDoc(in.items[i])],
     total_amount |-> total,
     status |-> "pending"]

\* ---------------------------------------------------------------- store
\* A call to the store succeeds when the handle exists and the store answers.
StoreAvailable(up) == db # None /\ up

TotalStored(st) ==
    Len(st["user"]) + Len(st["artwork"]) + Len(st["purchaserequest"])
    + Len(st["supply"]) + Len(st["order"]) + Len(st["post"]) + Len(st["comment"])

\* identifiers are generated by the store, unique over all records
NewId == TotalStored(store) + 1

create_document(c, doc) ==
    store' = [store EXCEPT ![c] = Append(@, [id |-> NewId, doc |-> doc])]

NoFilter == [kind |-> "all", field |-> "", values |-> {}]

Matches(doc, filt) ==
    CASE filt.kind = "all" -> TRUE
      [] filt.kind = "eq" -> doc[filt.field] \in filt.values
      [] filt.kind = "in" -> Range(doc[filt.field]) \cap filt.values # {}

Matching(c, filt) == SelectSeq(store[c], LAMBDA r : Matches(r.doc, filt))

\* limit 0 stands for no limit
get_documents(c, filt, limit) ==
    LET found == Matching(c, filt)
    IN  IF limit = 0 \/ Len(found) <= limit THEN found
        ELSE SubSeq(found, 1, limit)

\* ------------------------------------------------------------- responses
Reply(op, c, status, error, id, body, input, calls) ==
    [op |-> op, coll |-> c, status |-> status, error |-> error, id |-> id,
     body |-> body, input |-> input, calls |-> calls, report |-> <<>>]

\* the request body fails the endpoint's declared model: the handler is not run
Rejected(c, in) ==
    /\ resp' = Reply("create", c, "client_error", "ValidationFailure", 0, <<>>, in, 0)
    /\ UNCHANGED <<db, store>>

\* an exception leaves the handler: the serving layer answers with a server error
Raised(op, c, error, in, calls) ==
    /\ resp' = Reply(op, c, "server_error", error, 0, <<>>, in, calls)
    /\ UNCHANGED <<db, store>>

\* the record replaces the collection instead of joining it
PersistOverwrite(c, doc, in, up) ==
    IF StoreAvailable(up)
    THEN /\ store' = [store EXCEPT ![c] = <<[id |-> NewId, doc |-> doc]>>]
         /\ resp' = Reply("create", c, "ok", "", NewId, <<>>, in, 1)
         /\ UNCHANGED db
    ELSE Raised("create", c, "StorageUnavailable", in, 1)

\* new_id = create_document(c, doc); return {"id": new_id}
Persist(c, doc, in, up) ==
    IF StoreAvailable(up)
    THEN /\ create_document(c, doc)
         /\ resp' = Reply("create", c, "ok", "", NewId, <<>>, in, 1)
         /\ UNCHANGED db
    ELSE Raised("create", c, "StorageUnavailable", in, 1)

\* return get_documents(c, filt, limit)
Query(c, filt, limit, in, up) ==
    /\ IF StoreAvailable(up)
       THEN resp' = Reply("list", c, "ok", "", 0, get_documents(c, filt, limit), in, 1)
       ELSE resp' = Reply("list", c, "server_error", "StorageUnavailable", 0, <<>>, in, 1)
    /\ UNCHANGED <<db, store>>

\* ------------------------------------------------------------- handlers
create_user(in, up) ==
    IF UserValid(in) THEN Persist("user", UserDoc(in), in, up)
    ELSE Rejected("user", in)

list_users(up) == Query("user", NoFilter, 0, None, up)

create_artwork(in, up) ==
    IF ArtworkValid(in) THEN Persist("artwork", ArtworkDoc(in), in, up)
    ELSE Rejected("artwork", in)

\* a query parameter that is absent reaches the handler as None
Truthy(param) == param # None /\ param # ""

\* the tag parameter never reaches the filter
TagFilterIgnored(tag) == NoFilter

TagFilter(tag) ==
    IF Truthy(tag) THEN [kind |-> "in", field |-> "tags", values |-> {tag}]
    ELSE NoFilter

\* the limit argument left out
list_artworks_unlimited(tag, up) == Query("artwork", TagFilter(tag), 0, tag, up)

list_artworks(tag, up) == Query("artwork", TagFilter(tag), ArtworkLimit, tag, up)

create_purchase_request(in, up) ==
    IF PurchaseRequestValid(in)
    THEN Persist("purchaserequest", PurchaseRequestDoc(in), in, up)
    ELSE Rejected("purchaserequest", in)

create_supply(in, up) ==
    IF SupplyValid(in) THEN Persist("supply", SupplyDoc(in), in, up)
    ELSE Rejected("supply", in)

CategoryFilter(category) ==
    IF Truthy(category)
    THEN [kind |-> "eq", field |-> "category", values |-> {category}]
    ELSE NoFilter

list_supplies(category, up) ==
    Query("supply", CategoryFilter(category), SupplyLimit, category, up)

create_order(in, up) ==
    IF ~OrderInputValid(in) THEN Rejected("order", in)
    ELSE LET sum == ComputeTotal(in.items)
         IN  IF sum.raised THEN Raised("create", "order", "ValueError", in, 0)
             ELSE IF ~OrderValid(in.items, sum.total)
             THEN Raised("create", "order", "ValidationError", in, 0)
             ELSE Persist("order", OrderDoc(in, sum.total), in, up)

list_orders(up) == Query("order", NoFilter, OrderLimit, None, up)

create_post(in, up) ==
    IF PostValid(in) THEN Persist("post", PostDoc(in), in, up)
    ELSE Rejected("post", in)

list_posts(tag, up) == Query("post", TagFilter(tag), PostLimit, tag, up)

create_comment(in, up) ==
    IF CommentValid(in) THEN Persist("comment", CommentDoc(in), in, up)
    ELSE Rejected("comment", in)

PostIdFilter(post_id) == [kind |-> "eq", field |-> "post_id", values |-> {post_id}]

\* post_id declared Optional: without it every Comment is listed
list_comments_optional(query, up) ==
    IF Has(query, "post_id")
    THEN Query("comment", PostIdFilter(query.post_id), CommentLimit, query, up)
    ELSE Query("comment", NoFilter, CommentLimit, query, up)

\* post_id is a required query parameter: without it the handler is not run
list_comments(query, up) ==
    IF Has(query, "post_id")
    THEN Query("comment", PostIdFilter(query.post_id), CommentLimit, query, up)
    ELSE /\ resp' = Reply("list", "comment", "client_error",
                          "MissingRequiredParameter", 0, <<>>, query, 0)
         /\ UNCHANGED <<db, store>>

\* db.list_collection_names(): the collections that hold a document
CollectionNames == {c \in Collections : store[c] # <<>>}

\* collections[:10]
Sample(names) ==
    IF Cardinality(names) <= 10 THEN names
    ELSE CHOOSE s \in SUBSET names : Cardinality(s) = 10

\* GET /test without the inner try/except: a failed listing leaves the handler
test_database_unguarded(listFails, urlSet, nameSet) ==
    IF db # None /\ listFails
    THEN Raised("test", "", "StorageError", [listFails |-> listFails], 1)
    ELSE /\ resp' =
              [Reply("test", "", "ok", "", 0, <<>>, [listFails |-> listFails],
                     IF db # None THEN 1 ELSE 0)
               EXCEPT !.report =
                 [backend |-> "Running",
                  database |-> IF db # None THEN "Connected & Working"
                               ELSE "Available but not initialized",
                  database_url |-> IF urlSet THEN "Set" ELSE "Not Set",
                  database_name |-> IF nameSet THEN "Set" ELSE "Not Set",
                  connection_status |-> IF db # None THEN "Connected" ELSE "Not Connected",
                  collections |-> IF db # None THEN Sample(CollectionNames) ELSE {}]]
         /\ UNCHANGED <<db, store>>

\* GET /test. listFails: db.list_collection_names() raises; urlSet, nameSet:
\* DATABASE_URL, DATABASE_NAME are set in the environment.
test_database(listFails, urlSet, nameSet) ==
    /\ resp' =
         [Reply("test", "", "ok", "", 0, <<>>, [listFails |-> listFails],
                IF db # None THEN 1 ELSE 0)
          EXCEPT !.report =
            [backend |-> "Running",
             database |->
                IF db # None
                THEN IF listFails THEN "Connected but Error"
                     ELSE "Connected & Working"
                ELSE "Available but not initialized",
             database_url |-> IF urlSet THEN "Set" ELSE "Not Set",
             database_name |-> IF nameSet THEN "Set" ELSE "Not Set",
             connection_status |-> IF db # None THEN "Connected" ELSE "Not Connected",
             collections |->
                IF db # None /\ ~listFails THEN Sample(CollectionNames) ELSE {}]]
    /\ UNCHANGED <<db, store>>

\* ---------------------------------------------------------- request inputs
UserInputs ==
    { [name |-> "ann", email |-> "ann@x.io"],
      [name |-> "bob", email |-> "bob@x.io", role |-> "artist", is_active |-> FALSE,
       avatar_url |-> "http://img.io/a.png", admin |-> TRUE],
      [name |-> "cy"],
      [name |-> "dee", email |-> "dee@x.io", role |-> "admin"],
      [name |-> "eve", email |-> "eve@x.io", avatar_url |-> "a.png"] }

ArtworkInputs ==
    { [artist_id |-> "u1", title |-> "Dawn"],
      [artist_id |-> "u1", title |-> "Blue", tags |-> <<"abstract">>,
       availability_status |-> "sold", likes |-> 4],
      [artist_id |-> "u2", title |-> "Anna", tags |-> <<"portrait">>],
      [artist_id |-> "u2", title |-> "Dusk", likes |-> -1, views |-> -2],
      [artist_id |-> "u1", title |-> "Gone", availability_status |-> "stolen"],
      [artist_id |-> "u1"],
      [title |-> "Orphan", tags |-> <<"abstract">>] }

PurchaseRequestInputs ==
    { [artwork_id |-> "a1", buyer_name |-> "ann", buyer_email |-> "ann@x.io"],
      [artwork_id |-> "a1", buyer_name |-> "ann", buyer_email |-> "ann@x.io",
       status |-> "paid"],
      [artwork_id |-> "a1", buyer_name |-> "ann"] }

SupplyInputs ==
    { [title |-> "Brush", price |-> 5, category |-> "Brushes"],
      [title |-> "Linen", price |-> 0, category |-> "Canvas", stock |-> 3],
      [title |-> "Brush", price |-> 5],
      [price |-> 5, category |-> "Brushes"],
      [title |-> "Brush", price |-> -1, category |-> "Brushes"],
      [title |-> "Brush", price |-> 5, category |-> "Brushes", stock |-> -1] }

PostInputs ==
    { [author_id |-> "u1", text |-> "hello"],
      [author_id |-> "u1", text |-> "new work", tags |-> <<"abstract">>],
      [author_id |-> "u2", text |-> "sitting", tags |-> <<"portrait">>],
      [author_id |-> "u1"],
      [text |-> "anonymous"] }

CommentInputs ==
    { [post_id |-> "p1", author_id |-> "u1", text |-> "nice"],
      [post_id |-> "p2", author_id |-> "u2", text |-> "wow", likes |-> 2],
      [author_id |-> "u1", text |-> "lost"],
      [post_id |-> "p1", author_id |-> "u1"] }

Tags == {None, "", "abstract", "portrait"}

Categories == {None, "", "Brushes", "Canvas"}

CommentQueries ==
    { [page |-> "1"], [post_id |-> "p1"], [post_id |-> "p2"], [post_id |-> ""] }

\* order lines that satisfy OrderItem
ItemMenu ==
    { [supply_id |-> "s1", title |-> "Brush", price |-> Num(10), quantity |-> Num(2)],
      [supply_id |-> "s2", title |-> "Linen", price |-> Num(5), quantity |-> NumStr(1)],
      [supply_id |-> "s3", title |-> "Ink", price |-> Num(3)] }

Refund == [supply_id |-> "s4", title |-> "Refund", price |-> Num(-4), quantity |-> Num(1)]

\* order lines that do not
BadItems ==
    { [price |-> Num(3)],
      [supply_id |-> "s1", price |-> Num(3), quantity |-> Num(1)],
      [supply_id |-> "s1", title |-> "Brush", quantity |-> Num(2)],
      [supply_id |-> "s1", title |-> "Brush", price |-> Num(3), quantity |-> Num(0)],
      [supply_id |-> "s1", title |-> "Brush", price |-> Text, quantity |-> Num(1)],
      [supply_id |-> "s1", title |-> "Brush", price |-> Num(3), quantity |-> Text],
      [supply_id |-> "s1", title |-> "Brush", price |-> Null, quantity |-> Num(1)] }

SeqsUpTo(S, n) == UNION {[1..k -> S] : k \in 0..n}

ItemLists ==
    SeqsUpTo(ItemMenu, MaxItems)
    \cup {<<b>> : b \in BadItems}
    \cup {<<m, b>> : m \in ItemMenu, b \in BadItems}
    \cup {<<Refund>>} \cup {<<m, Refund>> : m \in ItemMenu}

Buyer == [buyer_name |-> "ann", buyer_email |-> "ann@x.io", shipping_address |-> "1 Quay"]

WithItems(items) ==
    [buyer_name |-> Buyer.buyer_name, buyer_email |-> Buyer.buyer_email,
     shipping_address |-> Buyer.shipping_address, items |-> items]

WithTotal(items, total) ==
    [buyer_name |-> Buyer.buyer_name, buyer_email |-> Buyer.buyer_email,
     shipping_address |-> Buyer.shipping_address, items |-> items,
     total_amount |-> total, status |-> "paid"]

\* 999: a total the client sends along
OrderInputs ==
    {WithItems(items) : items \in ItemLists}
    \cup {WithTotal(items, 999) : items \in ItemLists}
    \cup {Buyer}

BasicOrderInputs ==
    { WithItems(<<>>),
      WithTotal(<<[supply_id |-> "s3", title |-> "Ink", price |-> Num(3)]>>, 999),
      WithItems(<<[price |-> Num(3)]>>),
      Buyer }

\* --------------------------------------------------------- specifications
Init ==
    /\ db \in {None, "handle"}
    /\ store = [c \in Collections |-> <<>>]
    /\ resp = Reply("none", "", "ok", "", 0, <<>>, None, 0)

Diagnose == \E listFails, urlSet, nameSet \in BOOLEAN :
                test_database(listFails, urlSet, nameSet)

\* Spec: every endpoint, every input, a small store.
Room == TotalStored(store) < MaxTotal

Next ==
    \/ \E in \in UserInputs, up \in BOOLEAN : Room /\ create_user(in, up)
    \/ \E up \in BOOLEAN : list_users(up)
    \/ \E in \in ArtworkInputs, up \in BOOLEAN : Room /\ create_artwork(in, up)
    \/ \E tag \in Tags, up \in BOOLEAN : list_artworks(tag, up)
    \/ \E in \in PurchaseRequestInputs, up \in BOOLEAN :
          Room /\ create_purchase_request(in, up)
    \/ \E in \in SupplyInputs, up \in BOOLEAN : Room /\ create_supply(in, up)
    \/ \E category \in Categories, up \in BOOLEAN : list_supplies(category, up)
    \/ \E in \in BasicOrderInputs, up \in BOOLEAN : Room /\ create_order(in, up)
    \/ \E up \in BOOLEAN : list_orders(up)
    \/ \E in \in PostInputs, up \in BOOLEAN : Room /\ create_post(in, up)
    \/ \E tag \in Tags, up \in BOOLEAN : list_posts(tag, up)
    \/ \E in \in CommentInputs, up \in BOOLEAN : Room /\ create_comment(in, up)
    \/ \E query \in CommentQueries, up \in BOOLEAN : list_comments(query, up)
    \/ Diagnose

Spec == Init /\ [][Next]_vars

\* SpecOrder: the order endpoints over every order input.
NextOrder ==
    \/ \E in \in OrderInputs, up \in BOOLEAN :
          Len(store["order"]) < MaxOrders /\ create_order(in, up)
    \/ \E up \in BOOLEAN : list_orders(up)

SpecOrder == Init /\ [][NextOrder]_vars

\* SpecLimit: one collection filled past its list limit.  Its first record
\* is drawn from the full input set, the rest are one plain record.
Filling(c, cap) ==
    /\ Len(store[c]) < cap
    /\ \A d \in Collections \ {c} : store[d] = <<>>

Fill(c, inputs, plain) == IF store[c] = <<>> THEN inputs ELSE {plain}

PlainUser == [name |-> "ann", email |-> "ann@x.io"]
PlainArtwork == [artist_id |-> "u1", title |-> "Blue", tags |-> <<"abstract">>]
PlainSupply == [title |-> "Brush", price |-> 5, category |-> "Brushes"]
PlainOrder == WithItems(<<[supply_id |-> "s3", title |-> "Ink", price |-> Num(3)]>>)
PlainPost == [author_id |-> "u1", text |-> "new work", tags |-> <<"abstract">>]
PlainComment == [post_id |-> "p1", author_id |-> "u1", text |-> "nice"]

NextLimit ==
    \/ \E in \in Fill("user", UserInputs, PlainUser), up \in BOOLEAN :
          Filling("user", MaxUsers) /\ create_user(in, up)
    \/ \E up \in BOOLEAN : list_users(up)
    \/ \E in \in Fill("artwork", ArtworkInputs, PlainArtwork), up \in BOOLEAN :
          Filling("artwork", ArtworkLimit + MaxOver) /\ create_artwork(in, up)
    \/ \E tag \in Tags, up \in BOOLEAN : list_artworks(tag, up)
    \/ \E in \in Fill("supply", SupplyInputs, PlainSupply), up \in BOOLEAN :
          Filling("supply", SupplyLimit + MaxOver) /\ create_supply(in, up)
    \/ \E category \in Categories, up \in BOOLEAN : list_supplies(category, up)
    \/ \E in \in Fill("order", BasicOrderInputs, PlainOrder), up \in BOOLEAN :
          Filling("order", OrderLimit + MaxOver) /\ create_order(in, up)
    \/ \E up \in BOOLEAN : list_orders(up)
    \/ \E in \in Fill("post", PostInputs, PlainPost), up \in BOOLEAN :
          Filling("post", PostLimit + MaxOver) /\ create_post(in, up)
    \/ \E tag \in Tags, up \in BOOLEAN : list_posts(tag, up)
    \/ \E in \in Fill("comment", CommentInputs, PlainComment), up \in BOOLEAN :
          Filling("comment", CommentLimit + MaxOver) /\ create_comment(in, up)
    \/ \E query \in CommentQueries, up \in BOOLEAN : list_comments(query, up)

SpecLimit == Init /\ [][NextLimit]_vars

\* ------------------------------------------------------------------ claims
Last(s) == s[Len(s)]

Served(op, c) == resp.op = op /\ resp.coll = c

Min(a, b) == IF a <= b THEN a ELSE b

IsPrefix(s, t) == Len(s) <= Len(t) /\ SubSeq(t, 1, Len(s)) = s

\* ---- C1
\* price x quantity of one raw line: no price counts 0, no quantity counts 1
LineAmount(item) ==
    (IF Has(item, "price") THEN item.price.n ELSE 0)
    * (IF Has(item, "quantity") THEN item.quantity.n ELSE 1)

RECURSIVE SumOfLines(_)
SumOfLines(items) ==
    IF items = <<>> THEN 0 ELSE LineAmount(Head(items)) + SumOfLines(Tail(items))

BrushLine == [supply_id |-> "s1", title |-> "Brush", price |-> Num(10), quantity |-> Num(2)]
LinenLine == [supply_id |-> "s2", title |-> "Linen", price |-> Num(5), quantity |-> NumStr(1)]
InkLine == [supply_id |-> "s3", title |-> "Ink", price |-> Num(3)]

\* C1: the order stored by an accepted POST /api/orders carries as total_amount
\* the sum over the raw input items of price x quantity (no quantity: 1, no
\* price: 0), whatever total the client sent; 10x2 + 5x1 gives 25 and a line
\* {price:3} adds 3.
C1_TotalRecomputed ==
    (Served("create", "order") /\ resp.status = "ok") =>
        LET rec == Last(store["order"])
        IN  /\ rec.id = resp.id
            /\ rec.doc.total_amount = SumOfLines(resp.input.items)
            /\ resp.input.items = <<BrushLine, LinenLine>> => rec.doc.total_amount = 25
            /\ resp.input.items = <<InkLine>> => rec.doc.total_amount = 3
            /\ rec.doc.status = "pending"

\* an accepted order that came with a client total and a line without quantity
C1_Witness ==
    /\ Served("create", "order") /\ resp.status = "ok"
    /\ Has(resp.input, "total_amount") /\ resp.input.total_amount = 999
    /\ resp.input.items = <<BrushLine, InkLine>>
    /\ Last(store["order"]).doc.total_amount = 23

\* ---- C2
\* the records of collection c a list request with parameter q asks for
Wanted(c, q, doc) ==
    CASE c \in {"artwork", "post"} -> q \in {None, ""} \/ q \in Range(doc.tags)
      [] c = "supply" -> q \in {None, ""} \/ doc.category = q
      [] c = "comment" -> doc.post_id = q.post_id
      [] OTHER -> TRUE

WantedCount(c, q) ==
    Cardinality({i \in 1..Len(store[c]) : Wanted(c, q, store[c][i].doc)})

Limited == {"artwork", "supply", "order", "post", "comment"}

ClaimedLimit(c) ==
    CASE c \in {"artwork", "order", "post"} -> 50
      [] c \in {"supply", "comment"} -> 100

\* C2: a list never returns more records than the entity's limit (Artwork 50,
\* Supply 100, Order 50, Post 50, Comment 100) and returns exactly the limit
\* when more matching records exist; the User list returns every stored User.
C2_ListBounded ==
    (resp.op = "list" /\ resp.status = "ok") =>
        IF resp.coll \in Limited
        THEN Len(resp.body) = Min(WantedCount(resp.coll, resp.input),
                                  ClaimedLimit(resp.coll))
        ELSE resp.body = store["user"]

\* 60 Artworks created, the list returns 50
C2_Witness ==
    /\ Served("list", "artwork") /\ resp.status = "ok" /\ resp.input = None
    /\ Len(store["artwork"]) = 60
    /\ Len(resp.body) = 50

\* ---- C3
Created == {"user", "artwork", "supply", "post", "comment"}

\* the defaults of the data model
Defaults(c) ==
    CASE c = "user" ->
           [role |-> "both", avatar_url |-> None, bio |-> "", location |-> None,
            is_active |-> TRUE]
      [] c = "artwork" ->
           [story |-> None, media |-> None, dimensions |-> None, year |-> None,
            images |-> <<>>, price_range |-> None, availability_status |-> "available",
            tags |-> <<>>, location |-> None,
            shipping_options |-> <<"artist-arranged", "insured-courier", "local-pickup">>,
            likes |-> 0, views |-> 0]
      [] c = "supply" ->
           [description |-> None, images |-> <<>>, stock |-> 0, brand |-> None]
      [] c = "post" -> [images |-> <<>>, tags |-> <<>>, likes |-> 0, comments_count |-> 0]
      [] c = "comment" -> [likes |-> 0, created_at |-> None]

\* doc is the input with the defaults filled in and undeclared fields dropped
MatchesInput(c, doc, in) ==
    /\ \A f \in DOMAIN doc :
          doc[f] = IF Has(in, f) THEN in[f] ELSE Defaults(c)[f]
    /\ DOMAIN Defaults(c) \subseteq DOMAIN doc

CreateReturnsStoredId ==
    (resp.op = "create" /\ resp.coll \in Created /\ resp.status = "ok") =>
        /\ resp.id # 0
        /\ Last(store[resp.coll]).id = resp.id
        /\ MatchesInput(resp.coll, Last(store[resp.coll]).doc, resp.input)

\* C3 as written: after a create that returned an identifier, every
\* list of that entity type (unfiltered, Comment by post_id) that returns
\* includes the record
C3_CreatedIsListed ==
    /\ CreateReturnsStoredId
    /\ (resp.op = "list" /\ resp.coll \in Created /\ resp.status = "ok") =>
          \A i \in 1..Len(store[resp.coll]) :
              Wanted(resp.coll, resp.input, store[resp.coll][i].doc) =>
                  store[resp.coll][i] \in Range(resp.body)

\* C3 (amended): a create that the store serves returns a non-empty identifier
\* and stores the validated, default-filled input; a later list of that entity
\* type that the store serves (unfiltered, Comment by post_id) includes the
\* record provided no more records match than the entity's list limit (User:
\* always).
C3_CreatedIsListedWithinLimit ==
    /\ CreateReturnsStoredId
    /\ (resp.op = "list" /\ resp.coll \in Created /\ resp.status = "ok") =>
          \A i \in 1..Len(store[resp.coll]) :
              ( /\ Wanted(resp.coll, resp.input, store[resp.coll][i].doc)
                /\ resp.coll \in Limited =>
                      WantedCount(resp.coll, resp.input) <= ClaimedLimit(resp.coll) ) =>
                  store[resp.coll][i] \in Range(resp.body)

\* 50 Artworks stored, the first created without optional fields: all listed
C3_Witness ==
    /\ Served("list", "artwork") /\ resp.status = "ok" /\ resp.input = None
    /\ Len(store["artwork"]) = 50
    /\ store["artwork"][1].doc.title = "Dawn"
    /\ store["artwork"][1].doc.availability_status = "available"
    /\ Last(store["artwork"]) \in Range(resp.body)

\* ---- C4
Required(c) ==
    CASE c = "artwork" -> {"artist_id", "title"}
      [] c = "supply" -> {"title", "price", "category"}
      [] c = "post" -> {"author_id", "text"}
      [] c = "comment" -> {"post_id", "author_id", "text"}

OutsideEnum(c, in) ==
    /\ c = "artwork"
    /\ Has(in, "availability_status")
    /\ in.availability_status \notin {"available", "reserved", "sold", "commission_only"}

Malformed(r) ==
    /\ r.op = "create"
    /\ r.coll \in {"artwork", "supply", "post", "comment"}
    /\ (\E f \in Required(r.coll) : ~Has(r.input, f)) \/ OutsideEnum(r.coll, r.input)

\* C4: an Artwork, Supply, Post or Comment create whose input misses a required
\* field or carries an enumerated value outside its closed set fails with
\* ValidationFailure and leaves every collection of the store unchanged.
C4_MalformedRejected ==
    [][ Malformed(resp') =>
           /\ resp'.status = "client_error"
           /\ resp'.error = "ValidationFailure"
           /\ store' = store ]_vars

\* an Artwork with a status outside the closed set was refused by a store that holds records
C4_Witness ==
    /\ Served("create", "artwork")
    /\ OutsideEnum("artwork", resp.input)
    /\ resp.error = "ValidationFailure"
    /\ TotalStored(store) > 0

\* ---- C5
TagListed == resp.op = "list" /\ resp.coll \in {"artwork", "post"} /\ resp.status = "ok"

OnlyTagged(t) == \A i \in 1..Len(resp.body) : t \in Range(resp.body[i].doc.tags)

\* C5 as written: listing Artworks or Posts with any tag parameter t returns
\* only records whose tags contain t; without one no tag filter is applied
C5_TagParameterFilters ==
    TagListed =>
        IF resp.input # None THEN OnlyTagged(resp.input)
        ELSE resp.body = get_documents(resp.coll, NoFilter, ClaimedLimit(resp.coll))

\* C5 (amended): listing Artworks or Posts with a non-empty tag parameter t
\* returns only records whose tags contain t, and each such record while no
\* more than the limit exist; without a tag parameter, or with an empty one,
\* no tag filter is applied.
C5_NonEmptyTagFilters ==
    TagListed =>
        IF resp.input \notin {None, ""}
        THEN /\ OnlyTagged(resp.input)
             /\ \A i \in 1..Len(store[resp.coll]) :
                   ( /\ resp.input \in Range(store[resp.coll][i].doc.tags)
                     /\ WantedCount(resp.coll, resp.input) <= ClaimedLimit(resp.coll) )
                   => store[resp.coll][i] \in Range(resp.body)
        ELSE Len(store[resp.coll]) <= ClaimedLimit(resp.coll) =>
                resp.body = store[resp.coll]

\* one Artwork tagged abstract, one tagged portrait: tag=abstract returns the first alone
C5_Witness ==
    /\ Served("list", "artwork") /\ resp.status = "ok" /\ resp.input = "abstract"
    /\ Len(store["artwork"]) = 2
    /\ store["artwork"][1].doc.tags = <<"abstract">>
    /\ store["artwork"][2].doc.tags = <<"portrait">>
    /\ resp.body = <<store["artwork"][1]>>

\* ---- C6
\* C6: GET /api/comments without post_id fails with MissingRequiredParameter, a
\* client error, without a call to the store; with post_id = p it returns only
\* Comments whose post_id is p.
C6_CommentsNeedPostId ==
    Served("list", "comment") =>
        IF Has(resp.input, "post_id")
        THEN /\ resp.status # "client_error"
             /\ \A i \in 1..Len(resp.body) : resp.body[i].doc.post_id = resp.input.post_id
        ELSE /\ resp.status = "client_error"
             /\ resp.error = "MissingRequiredParameter"
             /\ resp.calls = 0
             /\ resp.body = <<>>

\* the request without post_id was refused while Comments are stored
C6_Witness ==
    /\ Served("list", "comment")
    /\ ~Has(resp.input, "post_id")
    /\ resp.error = "MissingRequiredParameter"
    /\ store["comment"] # <<>>

\* ---- C7
Degraded == {"Available but not initialized", "Connected but Error"}

\* C7: GET /test always returns its report and never raises: with no store
\* handle, or when listing the collection names fails, the database field holds
\* a degraded status string, and the other endpoints can be served afterwards.
C7_DiagnosticsNeverRaises ==
    resp.op = "test" =>
        /\ resp.status = "ok"
        /\ resp.report.backend = "Running"
        /\ db = None => resp.report.database = "Available but not initialized"
        /\ (db # None /\ resp.input.listFails) =>
              resp.report.database = "Connected but Error"
        /\ (db # None /\ ~resp.input.listFails) =>
              /\ resp.report.database \notin Degraded
              /\ resp.report.collections = {c \in Collections : Len(store[c]) > 0}
        /\ ENABLED list_users(TRUE)
        /\ ENABLED list_artworks(None, TRUE)
        /\ ENABLED list_comments([post_id |-> "p1"], TRUE)
        /\ ENABLED Diagnose

\* the listing failed on a store that holds records: the report says so
C7_Witness ==
    /\ resp.op = "test" /\ resp.status = "ok"
    /\ resp.input.listFails
    /\ resp.report.database = "Connected but Error"
    /\ TotalStored(store) > 0

\* ---- C8
\* C8: a stored record stays stored with the same field values whatever is
\* served next, and list and diagnostics requests leave the store unchanged.
C8_RecordsImmutable ==
    [][ /\ \A c \in Collections : IsPrefix(store[c], store'[c])
        /\ resp'.op \in {"list", "test"} => store' = store ]_vars

\* diagnostics served over a store that holds two records
C8_Witness ==
    /\ resp.op = "test"
    /\ TotalStored(store) = 2

\* ---- C9
\* C9: every stored Artwork has likes >= 0 and views >= 0.
C9_ArtworkCountersNonNegative ==
    \A i \in 1..Len(store["artwork"]) :
        /\ store["artwork"][i].doc.likes >= 0
        /\ store["artwork"][i].doc.views >= 0

\* ---- C10
Numeric(v) == v.k \in {"int", "numstr"}

LineBreaksOrderItem(item) ==
    \/ ~Has(item, "supply_id")
    \/ ~Has(item, "title")
    \/ Has(item, "price") /\ ~Numeric(item.price)
    \/ Has(item, "quantity") /\ ~Numeric(item.quantity)
    \/ Has(item, "quantity") /\ Numeric(item.quantity) /\ item.quantity.n < 1

BreaksOrder(in) ==
    /\ Has(in, "items")
    /\ \/ \E i \in 1..Len(in.items) : LineBreaksOrderItem(in.items[i])
       \/ SumOfLines(in.items) < 0

\* C10: an order request whose items break the declared constraints fails as a
\* ValidationFailure, a client error and not a server error, and no order is
\* stored.
C10_BadOrderIsClientError ==
    (Served("create", "order") /\ BreaksOrder(resp.input)) =>
        /\ resp.status = "client_error"
        /\ resp.error = "ValidationFailure"
        /\ resp.id = 0

====
